---- MODULE Spec2Model ----
(***************************************************************************)
(* Deployment & Authentication Orchestrator of agent_builder_application.  *)
(*                                                                         *)
(* Two request handlers are modelled, each call being one atomic step      *)
(* except test_agent, which runs step by step beside the container runtime *)
(* and other test calls:                                                   *)
(*   deployment_agent_handler (specs/006-cognito-identity/                 *)
(*     deployment_agent.py) with its module-level UnifiedAuthHandler, and  *)
(*   platform_handler (specs/004-TODO-Features/platform_handler.py) with   *)
(*     AgentBuilderPlatform.                                               *)
(* The identity provider, the cloud control plane and the chat model are   *)
(* external collaborators: what they answer is an input of the step.       *)
(*                                                                         *)
(* Methods that the sources call but do not define (complete_aws_sso,      *)
(* complete_cognito, deploy_to_managed_agentcore and the packaging helpers *)
(* of AgentBuilderPlatform) are modelled from spec.md; generate_tools_code,*)
(* get_tools_list and generate_requirements are taken to return normally.  *)
(***************************************************************************)
EXTENDS Integers, Sequences, FiniteSets, TLC

VARIABLES user_sessions, challenges, resp,
          pc, testing, agent_test, agentcore_test, images, containers, cwd, ops, returned,
          runtimes, requester, authenticator

vars == <<user_sessions, challenges, resp,
          pc, testing, agent_test, agentcore_test, images, containers, cwd, ops, returned,
          runtimes, requester, authenticator>>

\* who is calling deployment_agent_handler: the caller of the last request
\* and, for each session id, the caller whose auth_callback wrote its record
callers == <<requester, authenticator>>

\* the test sandboxes of AgentBuilderPlatform: where each test call stands
\* (pc), the agent_config it was given (testing), the scratch directories
\* /tmp/agent_test_<user_id> and /tmp/agentcore_test_<user_id>, the images
\* agent-test-<user_id> of the container runtime, the container each call
\* started, the working directory of the process, the backend operations each
\* call invoked (ops) and what each call returned
sandbox == <<pc, testing, agent_test, agentcore_test, images, containers, cwd, ops, returned>>

----------------------------------------------------------------------------
(* Bounds *)

\* access tokens the identity provider can grant are 1..NumTokens (0 = none)
NumTokens == 1

\* principals (user id / email pairs) are 1..NumUsers (0 = none)
NumUsers == 1

\* consecutive polls of one session that the model counts
MaxPolls == 3

----------------------------------------------------------------------------
(* Values *)

\* payload.get("session_id") is absent
Absent == "<absent>"

\* session ids a caller can put in a payload
PayloadSessionIds == {"s1", Absent}

\* keys of user_sessions
SessionIds == {"s1", "default"}

Tokens == 1..NumTokens

Users == 1..NumUsers

\* user_sessions.get(session_id) is None
NoSession == [authState |-> "NONE", type |-> "none", credentials |-> 0, principal |-> 0]

SessionRecords ==
    [authState : {"AUTHENTICATED"}, type : {"aws_sso", "cognito"},
     credentials : Tokens, principal : Users]
    \cup [authState : {"FAILED"}, type : {"aws_sso", "cognito"},
          credentials : {0}, principal : {0}]
    \cup {NoSession}

\* the deployment options menu of handle_deployment_request
OptionsMenu ==
    << [type |-> "aws_account", title |-> "Deploy to My AWS Account",
        description |-> "I have an AWS account and want to deploy there",
        action |-> "aws_sso_login"],
       [type |-> "managed", title |-> "Use Managed Deployment",
        description |-> "Deploy to a managed AWS environment",
        action |-> "cognito_login"] >>

\* no authorization URL
NoUrl == [domain |-> "none", client_id |-> "none", state |-> "none"]

\* cognito_config.json as json.load returns it
cognito_config == [domain |-> "https://auth.example", client_id |-> "app-client"]

\* no agent configuration
NoConfig ==
    [name |-> "none", system_prompt |-> "none", tools |-> "none",
     model_type |-> "none", model_id |-> "none", user_id |-> "none"]

\* the response of the last handler call and what the call did: the handler
\* and action, the session id it ran for, the selector of the request (its
\* deployment_type, auth type or target type), the kind of response, the
\* "authenticated" flag of the response, the router's result behind it, the
\* driver invoked, the provider's reply, the fault met while deploying, the
\* collaborator calls made, the
\* tier deployed to, whether the session was AUTHENTICATED when the executor
\* ran, the options offered, and how many polls in a row were answered
\* "authorization pending" for this session, the agent configuration
\* answered by create_agent, the keys of the challenge handed out and the
\* authorization URL in it
NoResp ==
    [handler |-> "none", action |-> "none", sid |-> "none", selector |-> "none",
     kind |-> "none", authenticated |-> FALSE, result |-> "none", driver |-> "none",
     reply |-> "none", fault |-> "none", calls |-> << >>, tier |-> "none",
     authed |-> FALSE, options |-> << >>, polls |-> 0, config |-> NoConfig,
     challenge |-> {}, auth_url |-> NoUrl,
     credentials_from |-> "none"]

\* platform.auth_handler.user_sessions: AgentBuilderPlatform makes its own
\* UnifiedAuthHandler, and no action of platform_handler completes an
\* authentication
platform_user_sessions == [s \in SessionIds |-> NoSession]

----------------------------------------------------------------------------
(* deployment_agent_handler: the session id of a payload *)

SessionIdOf(p) == IF p = Absent THEN "default" ELSE p

----------------------------------------------------------------------------
(* Results of the router, the drivers and the executor *)

Result(kind, auth_type, driver, calls) ==
    [kind |-> kind, auth_type |-> auth_type, driver |-> driver, calls |-> calls,
     options |-> << >>, state |-> "none", token |-> 0, authed |-> FALSE,
     tier |-> "none", challenge |-> {}, auth_url |-> NoUrl,
     credentials_from |-> "none"]

----------------------------------------------------------------------------
(* Identity flow drivers *)

\* AWSAuthHandler.initiate_aws_sso_login: outcome is what the SSO service
\* does; only ClientError is caught, so a transport error of register_client
\* leaves the driver as an exception.  client_id and client_secret of the
\* registered client are local variables: the dictionary returned has the
\* keys below, and nothing is assigned to the handler or to a session
initiate_aws_sso_login(session_id, outcome) ==
    CASE outcome = "transport_error" ->
           Result("Exception", "none", "aws_sso", <<"register_client">>)
      [] outcome = "ok" ->
           [Result("Challenge", "aws_sso", "aws_sso",
                   <<"register_client", "start_device_authorization">>)
               EXCEPT !.challenge = {"auth_type", "device_code", "user_code",
                                     "verification_uri", "expires_in", "message"}]
      [] outcome = "register_error" ->
           Result("Error", "none", "aws_sso", <<"register_client">>)
      [] OTHER ->
           Result("Error", "none", "aws_sso",
                  <<"register_client", "start_device_authorization">>)

\* initiate_cognito_login that puts one fixed state in every URL
initiate_cognito_login_FixedState(session_id, outcome) ==
    IF outcome = "ok"
    THEN [Result("Challenge", "cognito", "cognito", << >>)
             EXCEPT !.state = "default",
                    !.challenge = {"auth_type", "auth_url", "message"},
                    !.auth_url = [domain |-> cognito_config.domain,
                                  client_id |-> cognito_config.client_id,
                                  state |-> "default"]]
    ELSE Result("Error", "none", "cognito", << >>)

\* CognitoAuthHandler.initiate_cognito_login: outcome "config_error" is a
\* missing or malformed cognito_config.json
initiate_cognito_login(session_id, outcome) ==
    IF outcome = "ok"
    THEN [Result("Challenge", "cognito", "cognito", << >>)
             EXCEPT !.state = session_id,
                    !.challenge = {"auth_type", "auth_url", "message"},
                    !.auth_url = [domain |-> cognito_config.domain,
                                  client_id |-> cognito_config.client_id,
                                  state |-> session_id]]
    ELSE Result("Error", "none", "cognito", << >>)

\* poll_for_aws_token with AuthorizationPendingException handled like any
\* other ClientError
poll_for_aws_token_PendingAsError(reply, token) ==
    IF reply = "granted"
    THEN [Result("AuthResult", "aws_sso", "aws_sso", <<"create_token">>)
             EXCEPT !.token = token]
    ELSE Result("Failed", "aws_sso", "aws_sso", <<"create_token">>)

\* poll_for_aws_token with every ClientError answered as pending
poll_for_aws_token_ErrorAsPending(reply, token) ==
    IF reply = "granted"
    THEN [Result("AuthResult", "aws_sso", "aws_sso", <<"create_token">>)
             EXCEPT !.token = token]
    ELSE Result("Pending", "aws_sso", "aws_sso", <<"create_token">>)

\* poll_for_aws_token that asks again by itself while the answer is pending
poll_for_aws_token_Retries(reply, token) ==
    CASE reply = "transport_error" ->
           Result("Exception", "aws_sso", "aws_sso", <<"create_token">>)
      [] reply = "granted" ->
           [Result("AuthResult", "aws_sso", "aws_sso", <<"create_token">>)
               EXCEPT !.token = token]
      [] reply = "authorization_pending" ->
           Result("Pending", "aws_sso", "aws_sso", <<"create_token", "create_token">>)
      [] OTHER ->
           Result("Failed", "aws_sso", "aws_sso", <<"create_token">>)

\* AWSAuthHandler.poll_for_aws_token: reply is what create_token answers;
\* only ClientError is caught, so a transport error leaves the driver as an
\* exception
poll_for_aws_token(reply, token) ==
    CASE reply = "transport_error" ->
           Result("Exception", "aws_sso", "aws_sso", <<"create_token">>)
      [] reply = "granted" ->
           [Result("AuthResult", "aws_sso", "aws_sso", <<"create_token">>)
               EXCEPT !.token = token]
      [] reply = "authorization_pending" ->
           Result("Pending", "aws_sso", "aws_sso", <<"create_token">>)
      [] OTHER ->
           Result("Failed", "aws_sso", "aws_sso", <<"create_token">>)

\* the code-for-token exchange of the authorization-code flow (spec.md 4.3)
exchange_cognito_code(reply, token) ==
    IF reply = "granted"
    THEN [Result("AuthResult", "cognito", "cognito", <<"token_exchange">>)
             EXCEPT !.token = token]
    ELSE Result("Failed", "cognito", "cognito", <<"token_exchange">>)

----------------------------------------------------------------------------
(* Unified authentication router.  Each operator yields the value returned *)
(* and self.user_sessions as the call leaves it.                           *)

\* handle_deployment_request that drops the session when a flow is begun
handle_deployment_request_Resets(us, session_id, user_preference, outcome) ==
    CASE user_preference = "aws_account" ->
           [sessions |-> [us EXCEPT ![session_id] = NoSession],
            res |-> initiate_aws_sso_login(session_id, outcome)]
      [] user_preference = "managed" ->
           [sessions |-> [us EXCEPT ![session_id] = NoSession],
            res |-> initiate_cognito_login(session_id, outcome)]
      [] OTHER ->
           [sessions |-> us,
            res |-> [Result("OptionsMenu", "none", "none", << >>)
                        EXCEPT !.options = OptionsMenu]]

\* handle_deployment_request that falls back to the device-code flow when no
\* preference is given
handle_deployment_request_DefaultsToSso(us, session_id, user_preference, outcome) ==
    [sessions |-> us,
     res |-> IF user_preference = "managed"
             THEN initiate_cognito_login(session_id, outcome)
             ELSE initiate_aws_sso_login(session_id, outcome)]

\* UnifiedAuthHandler.handle_deployment_request
handle_deployment_request(us, session_id, user_preference, outcome) ==
    [sessions |-> us,
     res |-> CASE user_preference = "aws_account" ->
                    initiate_aws_sso_login(session_id, outcome)
               [] user_preference = "managed" ->
                    initiate_cognito_login(session_id, outcome)
               [] OTHER ->
                    [Result("OptionsMenu", "none", "none", << >>)
                        EXCEPT !.options = OptionsMenu]]

\* completeAuth of spec.md 4.4 for one driver result: AUTHENTICATED and
\* FAILED are terminal; AuthResult stores credentials and principal, Failed
\* moves to FAILED, Pending leaves the session as it is
StoreAuthResult(us, session_id, result, user) ==
    CASE us[session_id].authState \in {"AUTHENTICATED", "FAILED"} -> us
      [] result.kind = "AuthResult" ->
           [us EXCEPT ![session_id] =
               [authState |-> "AUTHENTICATED", type |-> result.auth_type,
                credentials |-> result.token, principal |-> user]]
      [] result.kind = "Failed" ->
           [us EXCEPT ![session_id] =
               [authState |-> "FAILED", type |-> result.auth_type,
                credentials |-> 0, principal |-> 0]]
      [] OTHER -> us

\* what completeAuth answers for a session already in a terminal state
TerminalResult(session) ==
    IF session.authState = "AUTHENTICATED"
    THEN [Result("AuthResult", session.type, "none", << >>)
             EXCEPT !.token = session.credentials]
    ELSE Result("Failed", session.type, "none", << >>)

\* UnifiedAuthHandler.complete_aws_sso (called, not defined, in unified_auth.py)
complete_aws_sso(us, session_id, reply, token, user) ==
    IF us[session_id].authState \in {"AUTHENTICATED", "FAILED"}
    THEN [sessions |-> us, res |-> TerminalResult(us[session_id])]
    ELSE LET result == poll_for_aws_token(reply, token)
         IN  [sessions |-> StoreAuthResult(us, session_id, result, user),
              res |-> result]

\* UnifiedAuthHandler.complete_cognito (called, not defined, in unified_auth.py)
complete_cognito(us, session_id, reply, token, user) ==
    IF us[session_id].authState \in {"AUTHENTICATED", "FAILED"}
    THEN [sessions |-> us, res |-> TerminalResult(us[session_id])]
    ELSE LET result == exchange_cognito_code(reply, token)
         IN  [sessions |-> StoreAuthResult(us, session_id, result, user),
              res |-> result]

\* complete_authentication that completes under one key for every caller
complete_authentication_SharedKey(us, session_id, auth_type, reply, token, user) ==
    CASE auth_type = "aws_sso" -> complete_aws_sso(us, "default", reply, token, user)
      [] auth_type = "cognito" -> complete_cognito(us, "default", reply, token, user)
      [] OTHER -> [sessions |-> us, res |-> Result("None", "none", "none", << >>)]

\* UnifiedAuthHandler.complete_authentication; kind "None" is Python's None,
\* returned when auth_type matches neither branch
complete_authentication(us, session_id, auth_type, reply, token, user) ==
    CASE auth_type = "aws_sso" -> complete_aws_sso(us, session_id, reply, token, user)
      [] auth_type = "cognito" -> complete_cognito(us, session_id, reply, token, user)
      [] OTHER -> [sessions |-> us, res |-> Result("None", "none", "none", << >>)]

----------------------------------------------------------------------------
(* Deployment executor.  fault is what the cloud control plane does.       *)

Deployed(kind, tier, calls, authed) ==
    [Result(kind, "none", "none", calls) EXCEPT !.tier = tier, !.authed = authed]

\* DeploymentExecutor.deploy_to_aws_account: reading the access keys of a
\* session that holds no credentials raises before any call is made, and so
\* does a boto3.Session that cannot be opened with them (fault
\* "session_error"); the handler catches ClientError only
deploy_to_aws_account(user_credentials, fault) ==
    LET authed == user_credentials.authState = "AUTHENTICATED"
    IN  CASE user_credentials.credentials = 0 \/ fault = "session_error" ->
               Deployed("Exception", "USER_ACCOUNT", << >>, authed)
          [] fault = "none" ->
               Deployed("Success", "USER_ACCOUNT", <<"create_agent_runtime">>, authed)
          [] fault = "client_error" ->
               Deployed("DeploymentFailed", "USER_ACCOUNT",
                        <<"create_agent_runtime">>, authed)
          [] OTHER ->
               Deployed("Exception", "USER_ACCOUNT", <<"create_agent_runtime">>, authed)

\* DeploymentExecutor.deploy_to_managed_environment: user_info['user_id'] of
\* a session without principal raises before any call is made, and so does a
\* boto3 client that cannot be made (fault "session_error")
deploy_to_managed_environment(user_info, fault) ==
    LET authed == user_info.authState = "AUTHENTICATED"
    IN  CASE user_info.principal = 0 \/ fault = "session_error" ->
               Deployed("Exception", "MANAGED_TENANT", << >>, authed)
          [] fault = "none" ->
               Deployed("Success", "MANAGED_TENANT", <<"create_agent_runtime">>, authed)
          [] fault = "client_error" ->
               Deployed("DeploymentFailed", "MANAGED_TENANT",
                        <<"create_agent_runtime">>, authed)
          [] OTHER ->
               Deployed("Exception", "MANAGED_TENANT",
                        <<"create_agent_runtime">>, authed)

\* deploy_to_user_account that reads the session of the default key
deploy_to_user_account_DefaultKey(us, session_id, fault) ==
    LET user_auth == us["default"]
    IN  [sessions |-> us,
         res |-> CASE user_auth = NoSession ->
                        Deployed("NotAuthenticated", "none", << >>, FALSE)
                   [] user_auth.type = "aws_sso" ->
                        deploy_to_aws_account(user_auth, fault)
                   [] OTHER ->
                        deploy_to_managed_environment(user_auth, fault)]

\* deploy_to_user_account that forgets the session when the deployment did
\* not succeed
deploy_to_user_account_DropsOnFailure(us, session_id, fault) ==
    LET user_auth == us[session_id]
        res == CASE user_auth = NoSession ->
                      Deployed("NotAuthenticated", "none", << >>, FALSE)
                 [] user_auth.type = "aws_sso" ->
                      deploy_to_aws_account(user_auth, fault)
                 [] OTHER ->
                      deploy_to_managed_environment(user_auth, fault)
    IN  [sessions |-> IF res.kind = "Success"
                      THEN us ELSE [us EXCEPT ![session_id] = NoSession],
         res |-> res]

\* UnifiedAuthHandler.deploy_to_user_account: the credentials handed to the
\* executor are the record stored for the session id
deploy_to_user_account(us, session_id, fault) ==
    LET user_auth == us[session_id]
    IN  [sessions |-> us,
         res |-> CASE user_auth = NoSession ->
                        Deployed("NotAuthenticated", "none", << >>, FALSE)
                   [] user_auth.type = "aws_sso" ->
                        [deploy_to_aws_account(user_auth, fault)
                            EXCEPT !.credentials_from = "session"]
                   [] OTHER ->
                        deploy_to_managed_environment(user_auth, fault)]

\* deploy_to_user_aws_account that asks for the runtime before it opens the
\* session of the user
deploy_to_user_aws_account_CreatesFirst(us, session_id, fault) ==
    LET authed == /\ session_id \in DOMAIN us
                  /\ us[session_id].authState = "AUTHENTICATED"
    IN  CASE fault = "none" ->
               Deployed("Success", "USER_ACCOUNT",
                        <<"create_agent_runtime", "create_user_aws_session">>, authed)
          [] fault = "package_error" ->
               Deployed("DeploymentFailed", "USER_ACCOUNT", << >>, authed)
          [] OTHER ->
               Deployed("DeploymentFailed", "USER_ACCOUNT",
                        <<"create_agent_runtime", "create_user_aws_session">>, authed)

\* AgentBuilderPlatform.deploy_to_user_aws_account: the production code and
\* the package are made, then create_user_aws_session opens the session of
\* the user by assuming their role (fault "assume_error"), then the runtime
\* is created; every fault is caught by its except Exception.  The session
\* is opened with deployment_target["credentials"], which came in the request
deploy_to_user_aws_account(us, session_id, fault) ==
    LET authed == /\ session_id \in DOMAIN us
                  /\ us[session_id].authState = "AUTHENTICATED"
        opened(r) == [r EXCEPT !.credentials_from = "request"]
    IN  CASE fault = "none" ->
               opened(Deployed("Success", "USER_ACCOUNT",
                        <<"create_user_aws_session", "create_agent_runtime">>, authed))
          [] fault = "package_error" ->
               Deployed("DeploymentFailed", "USER_ACCOUNT", << >>, authed)
          [] fault = "assume_error" ->
               opened(Deployed("DeploymentFailed", "USER_ACCOUNT",
                        <<"create_user_aws_session">>, authed))
          [] OTHER ->
               opened(Deployed("DeploymentFailed", "USER_ACCOUNT",
                        <<"create_user_aws_session", "create_agent_runtime">>, authed))

\* AgentBuilderPlatform.deploy_to_managed_agentcore (called, not defined, in
\* agent_builder_platform.py): the MANAGED_TENANT path of spec.md 4.5
deploy_to_managed_agentcore(us, session_id, fault) ==
    LET authed == /\ session_id \in DOMAIN us
                  /\ us[session_id].authState = "AUTHENTICATED"
    IN  IF fault = "none"
        THEN Deployed("Success", "MANAGED_TENANT", <<"create_agent_runtime">>, authed)
        ELSE Deployed("DeploymentFailed", "MANAGED_TENANT",
                      <<"create_agent_runtime">>, authed)

\* AgentBuilderPlatform.deploy_to_production: the session is not looked at
deploy_to_production(us, session_id, target_type, fault) ==
    CASE target_type = "aws_account" -> deploy_to_user_aws_account(us, session_id, fault)
      [] target_type = "managed" -> deploy_to_managed_agentcore(us, session_id, fault)
      [] OTHER -> Deployed("InvalidTarget", "none", << >>, FALSE)

----------------------------------------------------------------------------
(* AgentBuilderPlatform: agent configurations *)

\* model_type values that test_agent has a backend for
ModelFamilies == {"ollama", "bedrock"}

\* AgentBuilderPlatform.create_agent_config: user_config[key] of a missing
\* key raises KeyError, tools defaults to the empty list, and model_type is
\* copied as given
create_agent_config(user_config) ==
    IF \/ user_config.agent_name = Absent \/ user_config.system_prompt = Absent
       \/ user_config.model_type = Absent \/ user_config.model_id = Absent
       \/ user_config.user_id = Absent
    THEN [kind |-> "KeyError", config |-> NoConfig]
    ELSE [kind |-> "agent_config",
          config |-> [name |-> user_config.agent_name,
                      system_prompt |-> user_config.system_prompt,
                      tools |-> IF user_config.tools = Absent
                                THEN "[]" ELSE user_config.tools,
                      model_type |-> user_config.model_type,
                      model_id |-> user_config.model_id,
                      user_id |-> user_config.user_id]]

----------------------------------------------------------------------------
(* AgentBuilderPlatform: test sandboxes *)

\* concurrent calls of test_agent
Procs == {"t1", "t2"}

\* user_id values of the agent configurations tested
Owners == {"u1", "u2"}

NoProgram == [backend |-> "none", system_prompt |-> "none", model_id |-> "none",
              tools |-> "none"]

\* generate_ollama_agent_code: the text is made of the tools, the model id and
\* the system prompt of the configuration
generate_ollama_agent_code(agent_config) ==
    [backend |-> "ollama", system_prompt |-> agent_config.system_prompt,
     model_id |-> agent_config.model_id, tools |-> agent_config.tools]

\* generate_agentcore_agent_code
generate_agentcore_agent_code(agent_config) ==
    [backend |-> "bedrock", system_prompt |-> agent_config.system_prompt,
     model_id |-> agent_config.model_id, tools |-> agent_config.tools]

\* generate_ollama_dockerfile: the files its COPY lines take from the build
\* context
DockerfileCopies == {"requirements.txt", "test_agent.py"}

\* the files of a /tmp/agent_test_<user_id> directory
FilesOf(dir) ==
    (IF dir.program # NoProgram THEN {"test_agent.py"} ELSE {})
    \cup (IF dir.dockerfile THEN {"Dockerfile"} ELSE {})
    \cup (IF dir.requirements THEN {"requirements.txt"} ELSE {})

\* payload["test_prompt"] of the call
test_prompt(p) == IF p = "t1" THEN "q1" ELSE "q2"

\* no container; status is the exit status, -1 while there is none
NoContainer == [state |-> "none", program |-> NoProgram, prompt |-> "none", status |-> -1]

\* what the program answers to the prompt
NoAnswer == [program |-> NoProgram, prompt |-> "none"]

\* no test call has returned
NoOutcome ==
    [kind |-> "none", test_environment |-> "none", response |-> NoAnswer,
     model |-> "none", fault |-> "none", status |-> -1]

\* the dictionaries test_agent returns, with the fault met and the exit status
\* of the container: {"success": True, "response", "test_environment",
\* "model"} is kind "Success", {"error": ...} is kind "Error" or, from
\* test_agent itself, "Unsupported"; kind "Exception" is an exception that
\* left test_agent
Outcome(kind, env, response, agent_config, fault, status) ==
    [kind |-> kind, test_environment |-> env, response |-> response,
     model |-> IF kind = "Success" THEN agent_config.model_id ELSE "none",
     fault |-> fault, status |-> status]

\* test_agent that sends what is not ollama to the AgentCore sandbox
test_agent_BedrockByDefault(agent_config) ==
    IF agent_config.model_type = "ollama"
    THEN "test_with_ollama_docker" ELSE "test_with_agentcore"

\* AgentBuilderPlatform.test_agent: the method the model type is sent to
test_agent(agent_config) ==
    CASE agent_config.model_type = "ollama" -> "test_with_ollama_docker"
      [] agent_config.model_type = "bedrock" -> "test_with_agentcore"
      [] OTHER -> "Unsupported model type"

----------------------------------------------------------------------------
(* Request handlers *)

Response(handler, action, sid, selector, kind, r) ==
    [NoResp EXCEPT !.handler = handler, !.action = action, !.sid = sid,
                   !.selector = selector, !.kind = kind, !.result = r.kind, !.driver = r.driver,
                   !.calls = r.calls, !.tier = r.tier, !.authed = r.authed,
                   !.options = r.options, !.challenge = r.challenge,
                   !.auth_url = r.auth_url,
                   !.credentials_from = r.credentials_from]

\* handle_auth_callback of deployment_agent.py: an exception of the router
\* passes through, testing "error" not in None raises, and any result
\* without an "error" key is answered as authenticated
handle_auth_callback(session_id, auth_type, result, reply) ==
    LET kind == CASE result.kind \in {"None", "Exception"} -> "Exception"
                  [] result.kind = "Failed" -> "Failed"
                  [] OTHER -> "Authenticated"
    IN  [Response("agent", "auth_callback", session_id, auth_type, kind, result)
            EXCEPT !.authenticated = (kind = "Authenticated"),
                   !.reply = IF result.driver = "none" THEN "none" ELSE reply]

\* polls in a row answered "authorization pending" for session_id, this one
\* included
PollsInARow(session_id, result) ==
    CASE result.kind # "Pending" -> 0
      [] resp.action = "auth_callback" /\ resp.sid = session_id -> resp.polls + 1
      [] OTHER -> 1

\* the handlers before any request, and the sandboxes before any test call;
\* requirements tells whether the scratch directories of the container
\* sandbox, which the platform makes with exist_ok=True and never clears,
\* hold a requirements.txt from before, and user is the user whose
\* configurations the second caller tests (the first tests those of "u1")
Started(requirements, user) ==
    /\ user_sessions = [s \in SessionIds |-> NoSession]
    /\ challenges = [s \in SessionIds |-> "none"]
    /\ resp = NoResp
    /\ pc = [p \in Procs |-> "idle"]
    /\ testing = [p \in Procs |->
                    [NoConfig EXCEPT !.user_id = IF p = "t1" THEN "u1" ELSE user]]
    /\ agent_test = [o \in Owners |-> [program |-> NoProgram, dockerfile |-> FALSE,
                                       requirements |-> requirements]]
    /\ agentcore_test = [o \in Owners |-> [program |-> NoProgram, requirements |-> FALSE,
                                           configured |-> FALSE, launched |-> NoProgram]]
    /\ images = [o \in Owners |-> NoProgram]
    /\ containers = [p \in Procs |-> NoContainer]
    /\ cwd = "/"
    /\ ops = [p \in Procs |-> << >>]
    /\ returned = [p \in Procs |-> NoOutcome]
    /\ runtimes = << >>
    /\ requester = "none"
    /\ authenticator = [s \in SessionIds |-> "none"]

Init == Started(FALSE, "u2")

\* deployment_agent_handler, action "deploy"
AgentDeploy(p, pref, outcome) ==
    LET sid == SessionIdOf(p)
        out == handle_deployment_request(user_sessions, sid, pref, outcome)
    IN  /\ UNCHANGED <<sandbox, runtimes, callers>>
        /\ user_sessions' = out.sessions
        /\ challenges' = IF out.res.kind = "Challenge"
                         THEN [challenges EXCEPT ![sid] = out.res.auth_type]
                         ELSE challenges
        /\ resp' = Response("agent", "deploy", sid, pref, out.res.kind, out.res)

\* deployment_agent_handler, action "auth_callback"
AgentAuthCallback(p, auth_type, reply, token, user) ==
    LET sid == SessionIdOf(p)
        out == complete_authentication(user_sessions, sid, auth_type, reply, token, user)
        polls == PollsInARow(sid, out.res)
    IN  /\ UNCHANGED <<sandbox, runtimes, callers>>
        /\ polls <= MaxPolls
        /\ user_sessions' = out.sessions
        /\ challenges' = challenges
        /\ resp' = [handle_auth_callback(sid, auth_type, out.res, reply)
                       EXCEPT !.polls = polls]

\* deployment_agent_handler, action "execute_deployment"
AgentExecuteDeployment(p, fault) ==
    LET sid == SessionIdOf(p)
        out == deploy_to_user_account(user_sessions, sid, fault)
    IN  /\ UNCHANGED <<sandbox, runtimes, callers>>
        /\ user_sessions' = out.sessions
        /\ challenges' = challenges
        /\ resp' = [Response("agent", "execute_deployment", sid, "session",
                             out.res.kind, out.res)
                       EXCEPT !.fault = IF out.res.tier = "none" THEN "none" ELSE fault]

\* deployment_agent_handler, no action: the chat model answers, and a prompt
\* that mentions deploying gets the options of handle_deployment_request
AgentConversation(p, mentionsDeploy) ==
    LET sid == SessionIdOf(p)
        out == handle_deployment_request(user_sessions, sid, "none", "ok")
        said == Result("Message", "none", "none", <<"agent">>)
    IN  /\ UNCHANGED <<sandbox, runtimes, callers>>
        /\ user_sessions' = IF mentionsDeploy THEN out.sessions ELSE user_sessions
        /\ challenges' = challenges
        /\ resp' = IF mentionsDeploy
                   THEN Response("agent", "conversation", sid, "none", "Message",
                                 [out.res EXCEPT !.calls = said.calls \o out.res.calls])
                   ELSE Response("agent", "conversation", sid, "none", "Message", said)

\* platform_handler, action "deploy_agent": payload["session_id"] of a payload
\* without one raises; the router's answer is returned under "authentication"
PlatformDeployAgent(p, pref, outcome) ==
    LET out == handle_deployment_request(platform_user_sessions, p, pref, outcome)
    IN  /\ UNCHANGED <<sandbox, runtimes, callers>>
        /\ UNCHANGED user_sessions
        /\ challenges' = IF p # Absent /\ out.res.kind = "Challenge"
                         THEN [challenges EXCEPT ![p] = out.res.auth_type]
                         ELSE challenges
        /\ resp' = IF p = Absent
                   THEN [NoResp EXCEPT !.handler = "platform", !.action = "deploy_agent",
                                       !.selector = pref, !.kind = "Exception"]
                   ELSE Response("platform", "deploy_agent", p, pref,
                                 IF out.res.kind = "Exception"
                                 THEN "Exception" ELSE "ReadyToDeploy", out.res)

\* platform_handler, action "execute_deployment": the payload's session id
\* is not read
PlatformExecuteDeployment(p, target_type, fault) ==
    LET sid == IF p = Absent THEN "none" ELSE p
        r == deploy_to_production(platform_user_sessions, sid, target_type, fault)
    IN  /\ UNCHANGED <<sandbox, runtimes, callers>>
        /\ UNCHANGED <<user_sessions, challenges>>
        /\ resp' = [Response("platform", "execute_deployment", sid, target_type,
                             r.kind, r)
                       EXCEPT !.fault = IF r.tier = "none" THEN "none" ELSE fault]

\* platform_handler, action "create_agent": no try surrounds the call
PlatformCreateAgent(user_config) ==
    LET built == create_agent_config(user_config)
    IN  /\ UNCHANGED <<sandbox, runtimes, callers>>
        /\ UNCHANGED <<user_sessions, challenges>>
        /\ resp' = [NoResp EXCEPT !.handler = "platform", !.action = "create_agent",
                                  !.selector = user_config.model_type,
                                  !.kind = IF built.kind = "KeyError"
                                           THEN "Exception" ELSE "Created",
                                  !.result = built.kind,
                                  !.config = built.config]

\* payload["agent_config"] of a create_agent request: with every key that
\* create_agent_config reads, tools or no tools, or with one of the keys it
\* subscripts missing
UserConfigs ==
    LET whole == [agent_name : {"a"}, system_prompt : {"p"},
                  tools : {"calculator", Absent},
                  model_type : {"ollama", "bedrock", "openai"},
                  model_id : {"m"}, user_id : {"u1"}]
    IN  whole \cup {[c EXCEPT ![key] = Absent] :
                      c \in whole,
                      key \in {"agent_name", "system_prompt", "model_type",
                               "model_id", "user_id"}}

Preferences == {"aws_account", "managed", "none", "other"}

BeginOutcomes(pref) ==
    CASE pref = "aws_account" ->
           {"ok", "register_error", "device_error", "transport_error"}
      [] pref = "managed" -> {"ok", "config_error"}
      [] OTHER -> {"ok"}

AuthTypes == {"aws_sso", "cognito", "other", "none"}

Replies(auth_type) ==
    CASE auth_type = "aws_sso" ->
           {"granted", "authorization_pending", "access_denied", "transport_error"}
      [] auth_type = "cognito" -> {"granted", "access_denied"}
      [] OTHER -> {"none"}

\* the token and the principal that come with a reply: none unless granted
Grants(reply) == IF reply = "granted" THEN Tokens \X Users ELSE {<<0, 0>>}

ExecutorFaults == {"none", "session_error", "client_error", "transport_error"}

PlatformFaults == {"none", "package_error", "assume_error", "create_error"}

TargetTypes == {"aws_account", "managed", "shared"}

Next ==
    \/ \E p \in PayloadSessionIds, pref \in Preferences :
          \E outcome \in BeginOutcomes(pref) : AgentDeploy(p, pref, outcome)
    \/ \E p \in PayloadSessionIds, auth_type \in AuthTypes :
          \E reply \in Replies(auth_type) :
             \E grant \in Grants(reply) :
                AgentAuthCallback(p, auth_type, reply, grant[1], grant[2])
    \/ \E p \in PayloadSessionIds, fault \in ExecutorFaults : AgentExecuteDeployment(p, fault)
    \/ \E p \in PayloadSessionIds, mentionsDeploy \in BOOLEAN :
          AgentConversation(p, mentionsDeploy)
    \/ \E p \in PayloadSessionIds, pref \in Preferences :
          \E outcome \in BeginOutcomes(pref) : PlatformDeployAgent(p, pref, outcome)
    \/ \E p \in PayloadSessionIds, target_type \in TargetTypes, fault \in PlatformFaults :
          PlatformExecuteDeployment(p, target_type, fault)
    \/ \E user_config \in UserConfigs : PlatformCreateAgent(user_config)

Spec == Init /\ [][Next]_vars

----------------------------------------------------------------------------
(* Test calls, step by step *)

\* the call of p returns outcome
Returns(p, outcome) ==
    /\ pc' = [pc EXCEPT ![p] = "idle"]
    /\ returned' = [returned EXCEPT ![p] = outcome]

\* the call of p goes on at step
GoesOn(p, step) ==
    /\ pc' = [pc EXCEPT ![p] = step]
    /\ UNCHANGED returned

\* platform_handler, action "test_agent": test_agent and, in the method it
\* picks, the generated files written to the scratch directory of the user
\* id (fault "write_error": makedirs or open raises OSError); the AgentCore
\* method then changes the working directory of the process.  A caller
\* tests configurations of its own user
PlatformTestAgent(p, agent_config, fault) ==
    LET o == agent_config.user_id
        method == test_agent(agent_config)
    IN  /\ pc[p] = "idle"
        /\ agent_config.user_id = testing[p].user_id
        /\ UNCHANGED <<runtimes, callers, user_sessions, challenges, resp, images>>
        /\ testing' = [testing EXCEPT ![p] = agent_config]
        /\ ops' = [ops EXCEPT ![p] = << >>]
        /\ containers' = [containers EXCEPT ![p] = NoContainer]
        /\ CASE method = "test_with_ollama_docker" /\ fault = "none" ->
                   /\ agent_test' =
                         [agent_test EXCEPT
                            ![o].program = generate_ollama_agent_code(agent_config),
                            ![o].dockerfile = TRUE]
                   /\ pc' = [pc EXCEPT ![p] = "images.build"]
                   /\ returned' = [returned EXCEPT ![p] = NoOutcome]
                   /\ UNCHANGED <<agentcore_test, cwd>>
              [] method = "test_with_ollama_docker" /\ fault # "none" ->
                   /\ Returns(p, Outcome("Error", "none", NoAnswer, agent_config, fault, -1))
                   /\ UNCHANGED <<agent_test, agentcore_test, cwd>>
              [] method = "test_with_agentcore" /\ fault = "none" ->
                   /\ agentcore_test' =
                         [agentcore_test EXCEPT
                            ![o].program = generate_agentcore_agent_code(agent_config),
                            ![o].requirements = TRUE]
                   /\ cwd' = o
                   /\ pc' = [pc EXCEPT ![p] = "agentcore configure"]
                   /\ returned' = [returned EXCEPT ![p] = NoOutcome]
                   /\ UNCHANGED agent_test
              [] method = "test_with_agentcore" /\ fault # "none" ->
                   /\ Returns(p, Outcome("Exception", "none", NoAnswer, agent_config,
                                         fault, -1))
                   /\ UNCHANGED <<agent_test, agentcore_test, cwd>>
              [] OTHER ->
                   /\ Returns(p, Outcome("Unsupported", "none", NoAnswer, agent_config,
                                         "none", -1))
                   /\ UNCHANGED <<agent_test, agentcore_test, cwd>>

\* docker_client.images.build(path=test_dir, tag=image_name): the build fails
\* when the daemon reports an error (fault "build_error") or when a file a
\* COPY line names is not in the directory; a failed build tags nothing
ImagesBuild(p, fault) ==
    LET o == testing[p].user_id
        failed == fault # "none" \/ ~(DockerfileCopies \subseteq FilesOf(agent_test[o]))
    IN  /\ pc[p] = "images.build"
        /\ UNCHANGED <<runtimes, callers, user_sessions, challenges, resp, testing, agent_test,
                       agentcore_test, containers, cwd>>
        /\ ops' = [ops EXCEPT ![p] = Append(@, "images.build")]
        /\ IF failed
           THEN /\ Returns(p, Outcome("Error", "none", NoAnswer, testing[p],
                                      IF fault # "none" THEN fault ELSE "copy_failed", -1))
                /\ UNCHANGED images
           ELSE /\ images' = [images EXCEPT ![o] = agent_test[o].program]
                /\ GoesOn(p, "containers.run")

\* docker_client.containers.run(image_name, command, detach=True, remove=True)
ContainersRun(p, fault) ==
    LET o == testing[p].user_id
    IN  /\ pc[p] = "containers.run"
        /\ UNCHANGED <<runtimes, callers, user_sessions, challenges, resp, testing, agent_test,
                       agentcore_test, images, cwd>>
        /\ ops' = [ops EXCEPT ![p] = Append(@, "containers.run")]
        /\ IF fault # "none"
           THEN /\ Returns(p, Outcome("Error", "none", NoAnswer, testing[p], fault, -1))
                /\ UNCHANGED containers
           ELSE /\ containers' = [containers EXCEPT ![p] =
                                    [state |-> "running", program |-> images[o],
                                     prompt |-> test_prompt(p), status |-> -1]]
                /\ GoesOn(p, "container.wait")

\* the container runtime: the command of the container ends
DaemonExit(p, status) ==
    /\ containers[p].state = "running"
    /\ containers' = [containers EXCEPT ![p].state = "exited", ![p].status = status]
    /\ UNCHANGED <<runtimes, callers, user_sessions, challenges, resp, pc, testing, agent_test,
                   agentcore_test, images, cwd, ops, returned>>

\* the container runtime: remove=True removes the container once it has
\* exited
DaemonRemove(p) ==
    /\ containers[p].state = "exited"
    /\ containers' = [containers EXCEPT ![p].state = "removed"]
    /\ UNCHANGED <<runtimes, callers, user_sessions, challenges, resp, pc, testing, agent_test,
                   agentcore_test, images, cwd, ops, returned>>

\* container.wait() is called: NotFound, caught by except Exception, when
\* the container is gone already
ContainerWait(p) ==
    /\ pc[p] = "container.wait"
    /\ UNCHANGED <<runtimes, callers, user_sessions, challenges, resp, testing, agent_test,
                   agentcore_test, images, containers, cwd>>
    /\ ops' = [ops EXCEPT ![p] = Append(@, "container.wait")]
    /\ IF containers[p].state = "removed"
       THEN Returns(p, Outcome("Error", "none", NoAnswer, testing[p], "not_found",
                               containers[p].status))
       ELSE GoesOn(p, "waiting")

\* container.wait() returns once the container has exited; its result, the
\* exit status, is assigned and not read
ContainerWaited(p) ==
    /\ pc[p] = "waiting"
    /\ containers[p].state \in {"exited", "removed"}
    /\ GoesOn(p, "container.logs")
    /\ UNCHANGED <<runtimes, callers, user_sessions, challenges, resp, testing, agent_test,
                   agentcore_test, images, containers, cwd, ops>>

\* container.logs() and the return of test_with_ollama_docker: NotFound when
\* the container has been removed, else success whatever the exit status
ContainerLogs(p) ==
    /\ pc[p] = "container.logs"
    /\ UNCHANGED <<runtimes, callers, user_sessions, challenges, resp, testing, agent_test,
                   agentcore_test, images, containers, cwd>>
    /\ ops' = [ops EXCEPT ![p] = Append(@, "container.logs")]
    /\ IF containers[p].state = "removed"
       THEN Returns(p, Outcome("Error", "none", NoAnswer, testing[p], "not_found",
                               containers[p].status))
       ELSE Returns(p, Outcome("Success", "ollama_docker",
                               [program |-> containers[p].program,
                                prompt |-> containers[p].prompt],
                               testing[p], "none", containers[p].status))

\* agentcore configure whose exit status is not checked: the failure is
\* recorded and the call goes on to launch
AgentcoreConfigure_Unchecked(p, fault) ==
    /\ pc[p] = "agentcore configure"
    /\ UNCHANGED <<runtimes, callers, user_sessions, challenges, resp, testing, agent_test, images,
                   containers, cwd>>
    /\ ops' = [ops EXCEPT ![p] = Append(@, "agentcore configure")]
    /\ CASE fault = "nonzero" ->
               /\ pc' = [pc EXCEPT ![p] = "agentcore launch"]
               /\ returned' = [returned EXCEPT ![p] =
                     Outcome("Error", "none", NoAnswer, testing[p], fault, -1)]
               /\ UNCHANGED agentcore_test
          [] fault = "cli_missing" ->
               /\ Returns(p, Outcome("Exception", "none", NoAnswer, testing[p], fault, -1))
               /\ UNCHANGED agentcore_test
          [] OTHER ->
               /\ agentcore_test' = [agentcore_test EXCEPT ![cwd].configured = TRUE]
               /\ GoesOn(p, "agentcore launch")

\* subprocess.run(["agentcore", "configure", ...], check=True) in the working
\* directory of the process: CalledProcessError (fault "nonzero") is caught,
\* FileNotFoundError for a missing agentcore executable (fault "cli_missing")
\* is not
AgentcoreConfigure(p, fault) ==
    /\ pc[p] = "agentcore configure"
    /\ UNCHANGED <<runtimes, callers, user_sessions, challenges, resp, testing, agent_test, images,
                   containers, cwd>>
    /\ ops' = [ops EXCEPT ![p] = Append(@, "agentcore configure")]
    /\ CASE fault = "nonzero" ->
               /\ Returns(p, Outcome("Error", "none", NoAnswer, testing[p], fault, -1))
               /\ UNCHANGED agentcore_test
          [] fault = "cli_missing" ->
               /\ Returns(p, Outcome("Exception", "none", NoAnswer, testing[p], fault, -1))
               /\ UNCHANGED agentcore_test
          [] OTHER ->
               /\ agentcore_test' = [agentcore_test EXCEPT ![cwd].configured = TRUE]
               /\ GoesOn(p, "agentcore launch")

\* subprocess.run(["agentcore", "launch"], check=True): launches what the
\* working directory holds, and exits non-zero in a directory that was not
\* configured
AgentcoreLaunch(p, fault) ==
    /\ pc[p] = "agentcore launch"
    /\ UNCHANGED <<runtimes, callers, user_sessions, challenges, resp, testing, agent_test, images,
                   containers, cwd>>
    /\ ops' = [ops EXCEPT ![p] = Append(@, "agentcore launch")]
    /\ IF fault # "none" \/ ~agentcore_test[cwd].configured
       THEN /\ Returns(p, Outcome("Error", "none", NoAnswer, testing[p], "nonzero", -1))
            /\ UNCHANGED agentcore_test
       ELSE /\ agentcore_test' =
                  [agentcore_test EXCEPT ![cwd].launched = agentcore_test[cwd].program]
            /\ GoesOn(p, "agentcore invoke")

\* subprocess.run(["agentcore", "invoke", "--prompt", test_prompt], ...,
\* check=True) and the return of test_with_agentcore: the agent launched from
\* the working directory answers
AgentcoreInvoke(p, fault) ==
    /\ pc[p] = "agentcore invoke"
    /\ UNCHANGED <<runtimes, callers, user_sessions, challenges, resp, testing, agent_test,
                   agentcore_test, images, containers, cwd>>
    /\ ops' = [ops EXCEPT ![p] = Append(@, "agentcore invoke")]
    /\ IF fault # "none" \/ agentcore_test[cwd].launched = NoProgram
       THEN Returns(p, Outcome("Error", "none", NoAnswer, testing[p], "nonzero", -1))
       ELSE Returns(p, Outcome("Success", "agentcore_sandbox",
                               [program |-> agentcore_test[cwd].launched,
                                prompt |-> test_prompt(p)],
                               testing[p], "none", -1))

\* payload["agent_config"] of the test_agent request of p
TestConfigs(p) ==
    [name : {"a"}, system_prompt : {IF p = "t1" THEN "p1" ELSE "p2"}, tools : {"[]"},
     model_type : {"ollama", "bedrock", "openai"}, model_id : {"m"},
     user_id : Owners]

WriteFaults == {"none", "write_error"}

BuildFaults == {"none", "build_error"}

RunFaults == {"none", "run_error"}

ExitStatuses == {0, 1}

ConfigureFaults == {"none", "nonzero", "cli_missing"}

CliFaults == {"none", "nonzero"}

SandboxNext ==
    \/ \E p \in Procs, fault \in WriteFaults :
          \E agent_config \in TestConfigs(p) : PlatformTestAgent(p, agent_config, fault)
    \/ \E p \in Procs, fault \in BuildFaults : ImagesBuild(p, fault)
    \/ \E p \in Procs, fault \in RunFaults : ContainersRun(p, fault)
    \/ \E p \in Procs, status \in ExitStatuses : DaemonExit(p, status)
    \/ \E p \in Procs : DaemonRemove(p)
    \/ \E p \in Procs : ContainerWait(p)
    \/ \E p \in Procs : ContainerWaited(p)
    \/ \E p \in Procs : ContainerLogs(p)
    \/ \E p \in Procs, fault \in ConfigureFaults : AgentcoreConfigure(p, fault)
    \/ \E p \in Procs, fault \in CliFaults : AgentcoreLaunch(p, fault)
    \/ \E p \in Procs, fault \in CliFaults : AgentcoreInvoke(p, fault)

SandboxInit == \E requirements \in BOOLEAN, user \in Owners : Started(requirements, user)

SandboxSpec == SandboxInit /\ [][SandboxNext]_vars

----------------------------------------------------------------------------
(* Runtime names of the managed environment *)

\* longest user id and agent name, in characters
MaxIdLen == 2

\* user ids and agent names are strings, here sequences of characters; "-"
\* is the character deploy_to_managed_environment joins them with
Chars == {"a", "-"}

Names == UNION {[1..k -> Chars] : k \in 1..MaxIdLen}

Emails == {"e1", "e2"}

\* user_info of a session authenticated with Cognito
UserInfos == [user_id : Names, email : Emails]

\* f"{tenant_id}-{agent_config['name']}"
agent_name(tenant_id, name) == tenant_id \o <<"-">> \o name

\* the create_agent_runtime request of deploy_to_managed_environment, with
\* the user and the agent it was made for
create_agent_runtime(user_info, name) ==
    LET tenant_id == user_info.user_id
    IN  [agentRuntimeName |-> agent_name(tenant_id, name),
         tags |-> [TenantId |-> tenant_id, UserEmail |-> user_info.email],
         user_id |-> user_info.user_id, email |-> user_info.email, agent |-> name]

\* DeploymentExecutor.deploy_to_managed_environment for one user and one
\* agent configuration; two deployments are followed
ManagedDeploy(user_info, name) ==
    /\ Len(runtimes) < 2
    /\ runtimes' = Append(runtimes, create_agent_runtime(user_info, name))
    /\ UNCHANGED <<callers, sandbox, user_sessions, challenges, resp>>

NamingNext == \E user_info \in UserInfos, name \in Names : ManagedDeploy(user_info, name)

NamingSpec == Init /\ [][NamingNext]_vars

----------------------------------------------------------------------------
(* Callers that send no session id *)

\* clients of deployment_agent_handler whose payloads have no "session_id"
Callers == {"c1", "c2"}

\* deployment_agent_handler, action "deploy", payload without session id
CallerDeploy(c, pref, outcome) ==
    LET sid == SessionIdOf(Absent)
        out == handle_deployment_request(user_sessions, sid, pref, outcome)
    IN  /\ UNCHANGED <<sandbox, runtimes, authenticator>>
        /\ requester' = c
        /\ user_sessions' = out.sessions
        /\ challenges' = IF out.res.kind = "Challenge"
                         THEN [challenges EXCEPT ![sid] = out.res.auth_type]
                         ELSE challenges
        /\ resp' = Response("agent", "deploy", sid, pref, out.res.kind, out.res)

\* deployment_agent_handler, action "auth_callback", payload without session
\* id
CallerAuthCallback(c, auth_type, reply, token, user) ==
    LET sid == SessionIdOf(Absent)
        out == complete_authentication(user_sessions, sid, auth_type, reply, token, user)
        polls == PollsInARow(sid, out.res)
    IN  /\ UNCHANGED <<sandbox, runtimes>>
        /\ polls <= MaxPolls
        /\ requester' = c
        /\ authenticator' = IF out.sessions[sid] # user_sessions[sid]
                            THEN [authenticator EXCEPT ![sid] = c]
                            ELSE authenticator
        /\ user_sessions' = out.sessions
        /\ challenges' = challenges
        /\ resp' = [handle_auth_callback(sid, auth_type, out.res, reply)
                       EXCEPT !.polls = polls]

\* deployment_agent_handler, action "execute_deployment", payload without
\* session id
CallerExecuteDeployment(c, fault) ==
    LET sid == SessionIdOf(Absent)
        out == deploy_to_user_account(user_sessions, sid, fault)
    IN  /\ UNCHANGED <<sandbox, runtimes, authenticator>>
        /\ requester' = c
        /\ user_sessions' = out.sessions
        /\ challenges' = challenges
        /\ resp' = [Response("agent", "execute_deployment", sid, "session",
                             out.res.kind, out.res)
                       EXCEPT !.fault = IF out.res.tier = "none" THEN "none" ELSE fault]

CallerNext ==
    \/ \E c \in Callers, pref \in Preferences :
          \E outcome \in BeginOutcomes(pref) : CallerDeploy(c, pref, outcome)
    \/ \E c \in Callers, auth_type \in AuthTypes :
          \E reply \in Replies(auth_type) :
             \E g \in Grants(reply) : CallerAuthCallback(c, auth_type, reply, g[1], g[2])
    \/ \E c \in Callers, fault \in ExecutorFaults : CallerExecuteDeployment(c, fault)

CallerSpec == Init /\ [][CallerNext]_vars

TypeOK ==
    /\ user_sessions \in [SessionIds -> SessionRecords]
    /\ challenges \in [SessionIds -> {"none", "aws_sso", "cognito"}]
    /\ resp.sid \in SessionIds \cup {"none"}

----------------------------------------------------------------------------
(* Properties *)

Made(call) == \E i \in 1..Len(resp.calls) : resp.calls[i] = call

MadeNext(call) == \E i \in 1..Len(resp'.calls) : resp'.calls[i] = call

IsDeploy == resp.action = "execute_deployment"

\* the deployment asked for is not one to the shared platform: the agent
\* handler deploys by the session's type, the platform handler by target type
NonSharedTarget == resp.selector \in {"session", "aws_account", "managed"}

\* C1: over both entrypoints' execute_deployment, a runtime-creation call
\* for the USER_ACCOUNT or MANAGED_TENANT tier is made only for a session
\* that has reached AUTHENTICATED.
C1_RuntimeCreationOnlyWhenAuthenticated ==
    (IsDeploy /\ Made("create_agent_runtime")
        /\ resp.tier \in {"USER_ACCOUNT", "MANAGED_TENANT"}) => resp.authed

\* C2: a deploy to a tier other than SHARED_PLATFORM for a session that is
\* not AUTHENTICATED answers NotAuthenticated and makes no collaborator call.
C2_NotAuthenticatedWithoutCalls ==
    (IsDeploy /\ NonSharedTarget
        /\ ~resp.authed)
    => (resp.kind = "NotAuthenticated" /\ resp.calls = << >>)

C4_CallbackReportsDriverResult ==
    resp.action = "auth_callback"
    => (/\ resp.authenticated => resp.result = "AuthResult"
        /\ resp.result = "Pending" => resp.kind = "Pending")

C8_BeginCreatesPendingSession ==
    [][(resp'.action = "deploy" /\ resp'.result = "Challenge"
          /\ user_sessions[resp'.sid] = NoSession)
        => (/\ user_sessions'[resp'.sid].authState = "PENDING"
            /\ user_sessions'[resp'.sid].type = resp'.driver)]_vars

\* the router was asked to begin an authentication
IsBeginNext ==
    /\ resp'.action \in {"deploy", "deploy_agent"}
    /\ resp'.kind # "Exception"

\* C9: a beginAuth without preference answers an OptionsMenu of exactly the
\* two flow descriptors, each with title, description and action tag,
\* invokes neither identity driver and changes no session state.
C9_NoPreferenceOffersMenu ==
    [][(IsBeginNext /\ resp'.selector = "none")
        => (/\ resp'.result = "OptionsMenu"
            /\ resp'.handler = "agent" => resp'.kind = "OptionsMenu"
            /\ Len(resp'.options) = 2
            /\ {resp'.options[i].type : i \in 1..2} = {"aws_account", "managed"}
            /\ {resp'.options[i].action : i \in 1..2} = {"aws_sso_login", "cognito_login"}
            /\ \A i \in 1..2 : /\ resp'.options[i].title # ""
                                /\ resp'.options[i].description # ""
            /\ resp'.driver = "none"
            /\ resp'.calls = << >>
            /\ user_sessions' = user_sessions
            /\ challenges' = challenges)]_vars

\* C9 witness: the menu was returned to a request without preference.
C9_Witness ==
    /\ resp.action = "deploy" /\ resp.selector = "none"
    /\ resp.kind = "OptionsMenu" /\ Len(resp.options) = 2

C11_DeployLeavesSession ==
    [][resp'.action = "execute_deployment" => user_sessions' = user_sessions]_vars

\* C11 witness: a deployment for an AUTHENTICATED session failed at the
\* provider and the session still holds its credentials and principal.
C11_Witness ==
    /\ IsDeploy /\ resp.handler = "agent" /\ resp.kind = "DeploymentFailed"
    /\ user_sessions[resp.sid].authState = "AUTHENTICATED"
    /\ user_sessions[resp.sid].credentials # 0
    /\ user_sessions[resp.sid].principal # 0

\* C18: an execute_deployment for USER_ACCOUNT whose delegated session
\* fails role assumption answers a failed DeploymentResult and makes no call
\* to the runtime-creation API.
C18_AssumeFailureMakesNoRuntime ==
    (IsDeploy /\ resp.tier = "USER_ACCOUNT" /\ resp.fault = "assume_error")
    => (resp.kind = "DeploymentFailed" /\ ~Made("create_agent_runtime"))

\* C18 witness: a USER_ACCOUNT deployment stopped at the role assumption,
\* after the call that opens the session of the user.
C18_Witness ==
    /\ IsDeploy /\ resp.tier = "USER_ACCOUNT" /\ resp.fault = "assume_error"
    /\ Made("create_user_aws_session")

\* C19: every fault during a deployment is answered as a failed
\* DeploymentResult: no exception leaves the executor on any tier.
C19_NoExceptionLeavesExecutor ==
    IsDeploy => resp.kind \in {"Success", "DeploymentFailed", "NotAuthenticated",
                               "InvalidTarget"}

\* C20: an error raised while a driver begins or polls is returned by the
\* driver as a Failed value: no exception leaves a driver.
C20_NoExceptionLeavesDriver ==
    resp.action \in {"deploy", "deploy_agent", "auth_callback"}
    => resp.result # "Exception"

\* the test call of p has returned
Done(p) == pc[p] = "idle" /\ returned[p].kind # "none"

\* operations of the container sandbox and of the AgentCore sandbox
ContainerOps == {"images.build", "containers.run", "container.wait", "container.logs"}

ManagedOps == {"agentcore configure", "agentcore launch", "agentcore invoke"}

ContainerSteps == {"images.build", "containers.run", "container.wait", "waiting",
                   "container.logs"}

ManagedSteps == {"agentcore configure", "agentcore launch", "agentcore invoke"}

OpsOf(p) == {ops[p][i] : i \in 1..Len(ops[p])}

\* C12: whenever a test call on the container sandbox has returned, by
\* whatever exit path, the container is gone and so is the image, if the
\* call built one.
C12_TeardownUnconditional ==
    \A p \in Procs :
       (Done(p) /\ testing[p].model_type = "ollama")
       => /\ containers[p].state \in {"none", "removed"}
          /\ "containers.run" \in OpsOf(p) => images[testing[p].user_id] = NoProgram

\* C13: a test call for model type "ollama" invokes only operations of the
\* container sandbox, one for "bedrock" only operations of the AgentCore
\* sandbox, and one for any other model type returns the unsupported-type
\* failure at once, having invoked no operation of either.
C13_RoutesByModelFamily ==
    \A p \in Procs :
       CASE testing[p].model_type = "none" -> TRUE
         [] testing[p].model_type = "ollama" ->
              /\ OpsOf(p) \subseteq ContainerOps
              /\ pc[p] \in ContainerSteps \cup {"idle"}
              /\ returned[p].test_environment \in {"none", "ollama_docker"}
         [] testing[p].model_type = "bedrock" ->
              /\ OpsOf(p) \subseteq ManagedOps
              /\ pc[p] \in ManagedSteps \cup {"idle"}
              /\ returned[p].test_environment \in {"none", "agentcore_sandbox"}
         [] OTHER ->
              /\ OpsOf(p) = {}
              /\ pc[p] = "idle"
              /\ returned[p].kind = "Unsupported"

\* C13 witness: one call was refused for its model type while another had
\* gone through its sandbox to a successful answer.
C13_Witness ==
    \E p, q \in Procs :
       /\ testing[p].model_type = "openai" /\ returned[p].kind = "Unsupported"
       /\ testing[q].model_type \in ModelFamilies /\ returned[q].kind = "Success"

\* C14: a test call on the container sandbox that met a build failure or a
\* run failure, a container exiting with a non-zero status included, returns
\* an outcome with success false and error set, and none raises.
C14_ContainerFailuresReported ==
    \A p \in Procs :
       (Done(p) /\ testing[p].model_type = "ollama")
       => /\ returned[p].kind # "Exception"
          /\ (returned[p].fault # "none" \/ returned[p].status \notin {-1, 0})
             => returned[p].kind = "Error"

\* C15: a test call on the AgentCore sandbox that met a failure (scratch file
\* not written, agentcore executable missing, non-zero exit of configure,
\* launch or invoke) returns an outcome with success false and error set,
\* and none raises.
C15_ManagedFailuresReported ==
    \A p \in Procs :
       (Done(p) /\ testing[p].model_type = "bedrock")
       => /\ returned[p].kind \in {"Success", "Error"}
          /\ returned[p].fault # "none" => returned[p].kind = "Error"

\* C16: the build of a container test finds in the scratch directory every
\* file its Dockerfile copies, and a container test whose container exited
\* with status 0 returns success from the container sandbox with the
\* container's output, however the runtime's removal of the container falls.
C16_ContainerSuccessScenario ==
    \A p \in Procs :
       testing[p].model_type = "ollama"
       => /\ pc[p] = "images.build"
             => DockerfileCopies \subseteq FilesOf(agent_test[testing[p].user_id])
          /\ (Done(p) /\ returned[p].status = 0)
             => /\ returned[p].kind = "Success"
                /\ returned[p].test_environment = "ollama_docker"
                /\ returned[p].response = [program |-> containers[p].program,
                                           prompt |-> containers[p].prompt]

\* C17: create_agent answers InvalidConfig, and nothing else, when one of
\* name, system prompt, model type, model id, user id is missing or the model
\* type is not one of the two families; a configuration it does answer has
\* all five and a model type that is one of the two families.
C17_BuildValidates ==
    resp.action = "create_agent"
    => /\ resp.kind \in {"Created", "InvalidConfig"}
       /\ resp.kind = "Created"
          => /\ resp.config.model_type \in ModelFamilies
             /\ \A f \in {"name", "system_prompt", "model_type", "model_id", "user_id"} :
                   resp.config[f] \notin {Absent, "none"}

\* C25: a poll of the device-code driver makes exactly one create_token
\* call, and maps what the provider answers three ways: authorization
\* pending to Pending, any other error answer to Failed, a granted token to
\* an AuthResult, whose token the session then holds.
C25_PollMapsThreeWays ==
    (/\ resp.action = "auth_callback" /\ resp.driver = "aws_sso"
     /\ resp.reply \in {"granted", "authorization_pending", "access_denied"})
    => /\ resp.calls = <<"create_token">>
       /\ resp.reply = "authorization_pending" => resp.result = "Pending"
       /\ resp.reply = "access_denied" => resp.result = "Failed"
       /\ resp.reply = "granted"
          => /\ resp.result = "AuthResult"
             /\ user_sessions[resp.sid].credentials # 0

\* C25 witness: a poll was answered authorization pending and mapped to
\* Pending after one create_token call.
C25_Witness ==
    /\ resp.action = "auth_callback" /\ resp.driver = "aws_sso"
    /\ resp.reply = "authorization_pending" /\ resp.result = "Pending"
    /\ resp.calls = <<"create_token">>

PollNeeds == {"client_id", "client_secret", "device_code"}

\* C27: every value a poll needs is in the challenge that begin returned for
\* the session or is kept in the record of that session.
C27_DeviceFlowCompletable ==
    (resp.driver = "aws_sso" /\ resp.result = "Challenge")
    => PollNeeds \subseteq (resp.challenge \cup
                            IF user_sessions[resp.sid] = NoSession
                            THEN {} ELSE DOMAIN user_sessions[resp.sid])

\* C28: an auth_callback whose type is neither aws_sso nor cognito, or is
\* missing, is answered with a Failed result: nothing is raised and the
\* session is not reported authenticated.
C28_UnknownTypeFails ==
    (resp.action = "auth_callback" /\ resp.selector \notin {"aws_sso", "cognito"})
    => (resp.kind = "Failed" /\ ~resp.authenticated)

\* C21: a USER_ACCOUNT deployment that opens a delegated session opens it
\* with the credentials stored for the session id, never with credentials
\* that came in the deployment request.
C21_DelegatedSessionFromStoredCredentials ==
    (IsDeploy /\ resp.tier = "USER_ACCOUNT" /\ resp.credentials_from # "none")
    => resp.credentials_from = "session"

\* C23: a deployment to the shared platform asks for no authentication: for
\* any state of the session, and for no session, it goes on to create a
\* runtime.
C23_SharedNeedsNoAuthentication ==
    (IsDeploy /\ resp.selector = "shared") => Made("create_agent_runtime")

\* the order of the operations of test_with_agentcore
ManagedOrder == <<"agentcore configure", "agentcore launch", "agentcore invoke">>

\* C24: every operation a test call runs on the AgentCore sandbox is the next
\* one of configure, launch, invoke; it is run only while no operation of the
\* call has failed, and an operation that fails ends the call: launch never
\* follows a failed configure, invoke never a failed configure or launch.
C24_ManagedStepsInOrderAndAbort ==
    [][\A p \in Procs :
          (/\ testing'[p].model_type = "bedrock"
           /\ ops'[p] # ops[p] /\ ops'[p] # << >>)
          => /\ returned[p].kind = "none"
             /\ ops'[p] = SubSeq(ManagedOrder, 1, Len(ops[p]) + 1)
             /\ returned'[p].kind \in {"Error", "Exception"} => pc'[p] = "idle"]_vars

\* C24 witness: a call whose configure exited non-zero has returned having
\* run configure alone.
C24_Witness ==
    \E p \in Procs :
       /\ Done(p) /\ testing[p].model_type = "bedrock"
       /\ returned[p].kind = "Error" /\ returned[p].fault = "nonzero"
       /\ ops[p] = <<"agentcore configure">>

\* C24 witness of the whole sequence: a call has run configure, launch and
\* invoke in that order and returned success.
C24_WitnessAll ==
    \E p \in Procs :
       /\ Done(p) /\ returned[p].kind = "Success"
       /\ ops[p] = ManagedOrder

\* the program test_agent synthesizes from a descriptor
ProgramOf(agent_config) ==
    IF agent_config.model_type = "ollama"
    THEN generate_ollama_agent_code(agent_config)
    ELSE generate_agentcore_agent_code(agent_config)

\* C29: under any interleaving of two test calls, a call that returns
\* success ran the program synthesized from its own descriptor with its own
\* prompt, and its outcome is the answer of that program to that prompt.
C29_TestCallsDoNotInterfere ==
    \A p \in Procs :
       (Done(p) /\ returned[p].kind = "Success")
       => returned[p].response = [program |-> ProgramOf(testing[p]),
                                  prompt |-> test_prompt(p)]

\* C22: a runtime of the managed environment is named with, and tagged with,
\* the user id and email of the user it was deployed for, and two deployments
\* that differ in (user id, agent name) never get the same runtime name.
C22_TenantIsolationByName ==
    \A i, j \in 1..Len(runtimes) :
       LET ri == runtimes[i]
           rj == runtimes[j]
       IN  /\ ri.tags = [TenantId |-> ri.user_id, UserEmail |-> ri.email]
           /\ SubSeq(ri.agentRuntimeName, 1, Len(ri.user_id)) = ri.user_id
           /\ <<ri.user_id, ri.agent>> # <<rj.user_id, rj.agent>>
              => ri.agentRuntimeName # rj.agentRuntimeName

\* C30: an execute_deployment without session id passes the authentication
\* check only for the caller whose own auth_callback wrote the session it
\* is checked against.
C30_NoSessionIdCallersApart ==
    (IsDeploy /\ resp.kind # "NotAuthenticated")
    => authenticator[resp.sid] = requester

====
